---- MODULE Spec2Model ----
(***************************************************************************)
(* Model of scripts/genotype.py: genotyping of structural-variant calls    *)
(* from read-pair support.                                                 *)
(*                                                                         *)
(* A read is a record with the pysam fields the script reads:              *)
(*   qname, pos (= reference_start), cigar (sequence of <<op, length>>),   *)
(*   is_unmapped, is_reverse, mapq, NM (the "NM" tag), isize (= tlen),     *)
(*   reference_id, is_secondary, is_supplementary (flag & 0x800),          *)
(*   mate_is_unmapped.                                                     *)
(* reference_end, qlen and get_blocks() are derived from pos and cigar as  *)
(* pysam derives them.  A region is a record [start, end].                 *)
(***************************************************************************)
EXTENDS Integers, Sequences, FiniteSets

\* ---------------------------------------------------------------- constants

BAM_CMATCH == 0
BAM_CSOFT_CLIP == 4
\* CIGAR operations of the BAM format other than the two the script names.
BAM_CINS == 1
BAM_CDEL == 2

\* Python 2 orders None below every number: the reference_end of an unmapped
\* read (None) is modelled by a value below every coordinate.
NoneValue == -1000000

\* ------------------------------------------------------- pysam read accessors

RECURSIVE CigarRefLen(_)
\* Reference bases consumed by a cigar: M and D operations.
CigarRefLen(cigar) ==
    IF cigar = <<>> THEN 0
    ELSE (IF Head(cigar)[1] \in {BAM_CMATCH, BAM_CDEL} THEN Head(cigar)[2] ELSE 0)
         + CigarRefLen(Tail(cigar))

RECURSIVE CigarQueryLen(_)
\* Aligned query bases of a cigar (soft clips excluded): M and I operations.
CigarQueryLen(cigar) ==
    IF cigar = <<>> THEN 0
    ELSE (IF Head(cigar)[1] \in {BAM_CMATCH, BAM_CINS} THEN Head(cigar)[2] ELSE 0)
         + CigarQueryLen(Tail(cigar))

\* read.reference_start
reference_start(read) == read.pos

\* read.reference_end: one past the last aligned reference base, None when unmapped.
reference_end(read) ==
    IF read.is_unmapped THEN NoneValue ELSE read.pos + CigarRefLen(read.cigar)

\* read.qlen: length of the aligned part of the query.
qlen(read) == CigarQueryLen(read.cigar)

RECURSIVE BlocksFrom(_, _)
\* read.get_blocks(): one <<start, end>> per M operation; D advances the position.
BlocksFrom(cigar, at) ==
    IF cigar = <<>> THEN <<>>
    ELSE IF Head(cigar)[1] = BAM_CMATCH
         THEN <<<<at, at + Head(cigar)[2]>>>> \o BlocksFrom(Tail(cigar), at + Head(cigar)[2])
         ELSE IF Head(cigar)[1] = BAM_CDEL
              THEN BlocksFrom(Tail(cigar), at + Head(cigar)[2])
              ELSE BlocksFrom(Tail(cigar), at)

get_blocks(read) == BlocksFrom(read.cigar, read.pos)

\* np.ceil(MAX_ERROR_RATE * qlen) with MAX_ERROR_RATE = 0.02 = 2/100.
MaxMismatches(n) == (2 * n + 99) \div 100

Abs(x) == IF x < 0 THEN -x ELSE x

\* ------------------------------------------------------- alignment predicates

has_perfect_mapping(read) ==
    /\ ~read.is_unmapped
    /\ \/ (read.mapq > 0 /\ read.NM <= MaxMismatches(qlen(read)))
       \/ /\ Len(read.cigar) = 1
          /\ read.cigar[1][1] = BAM_CMATCH
          /\ read.cigar[1][2] = qlen(read)
          /\ read.NM = 0

spans_region(read, region) ==
    reference_start(read) <= region.start /\ reference_end(read) >= region.end

\* More than one aligned block of the read overlaps [region.start, region.end).
has_gaps_in_region(read, region) ==
    LET blocks == get_blocks(read)
        tree == {blocks[i] : i \in DOMAIN blocks}
    IN Cardinality({b \in tree : b[1] < region.end /\ b[2] > region.start}) > 1

\* The pair's outer ends compared with <= and >= instead of < and >.
pair_spans_regions_inclusive(read_pair, regions) ==
    /\ Len(read_pair) = 2
    /\ reference_start(read_pair[1]) <= regions[1].start
    /\ reference_end(read_pair[2]) >= regions[Len(regions)].end

pair_spans_regions(read_pair, regions) ==
    /\ Len(read_pair) = 2
    /\ reference_start(read_pair[1]) < regions[1].start
    /\ reference_end(read_pair[2]) > regions[Len(regions)].end

soft_clips_at_breakpoint(read, region) ==
    /\ has_perfect_mapping(read)
    /\ \/ (reference_end(read) = region.start
           /\ read.cigar[Len(read.cigar)][1] = BAM_CSOFT_CLIP)
       \/ (reference_start(read) = region.end + 1
           /\ read.cigar[1][1] = BAM_CSOFT_CLIP)

maps_outside_regions(read, regions) ==
    \/ (reference_start(read) < regions[1].start /\ reference_end(read) < regions[1].start)
    \/ (reference_start(read) > regions[Len(regions)].end
        /\ reference_end(read) > regions[Len(regions)].end)

is_proper_pair(read, lower_insert_size_threshold, upper_insert_size_threshold) ==
    /\ lower_insert_size_threshold <= Abs(read.isize)
    /\ Abs(read.isize) <= upper_insert_size_threshold

\* ------------------------------------------------------- read-pair classifier

\* The three values of is_concordant.
PyTrue == "True"
PyFalse == "False"
PyNone == "None"

\* pybedtools.Interval(chrom, breakpoints[0].start, breakpoints[-1].end)
sv_coordinates(breakpoints) ==
    [start |-> breakpoints[1].start, end |-> breakpoints[Len(breakpoints)].end]

\* Rule e taken as concordant as soon as either read maps outside the
\* breakpoints.
insertion_both_mapped_either_outside(read_pair, breakpoints, upper_insert_threshold) ==
    IF \/ maps_outside_regions(read_pair[1], breakpoints)
       \/ maps_outside_regions(read_pair[2], breakpoints)
    THEN PyTrue
    ELSE IF Abs(read_pair[1].isize) > upper_insert_threshold
         THEN PyFalse
         ELSE PyNone

\* Rule e of the insertion chain, once both reads are perfectly mapped with
\* the first forward and the second reverse.
insertion_both_mapped(read_pair, breakpoints, upper_insert_threshold) ==
    IF \/ (maps_outside_regions(read_pair[1], breakpoints)
           /\ ~maps_outside_regions(read_pair[2], breakpoints))
       \/ (~maps_outside_regions(read_pair[1], breakpoints)
           /\ maps_outside_regions(read_pair[2], breakpoints))
       \/ (maps_outside_regions(read_pair[1], breakpoints)
           /\ spans_region(read_pair[2], breakpoints[1]))
       \/ (spans_region(read_pair[1], breakpoints[Len(breakpoints)])
           /\ maps_outside_regions(read_pair[2], breakpoints))
    THEN PyTrue
    ELSE IF Abs(read_pair[1].isize) > upper_insert_threshold
         THEN PyFalse
         ELSE PyNone

\* The insertion chain with the concordant rules c and d tried before the
\* discordant rules a and b.
insertion_chain_concordant_first(read_pair, breakpoints, upper_insert_threshold) ==
    IF /\ ~read_pair[1].is_reverse
       /\ has_perfect_mapping(read_pair[1])
       /\ spans_region(read_pair[1], breakpoints[1])
    THEN PyTrue
    ELSE IF /\ Len(read_pair) = 2
            /\ read_pair[2].is_reverse
            /\ has_perfect_mapping(read_pair[2])
            /\ spans_region(read_pair[2], breakpoints[Len(breakpoints)])
    THEN PyTrue
    ELSE IF \E i \in DOMAIN read_pair :
               /\ spans_region(read_pair[i], sv_coordinates(breakpoints))
               /\ has_gaps_in_region(read_pair[i], sv_coordinates(breakpoints))
    THEN PyFalse
    ELSE IF \E i \in DOMAIN read_pair : \E k \in DOMAIN breakpoints :
               soft_clips_at_breakpoint(read_pair[i], breakpoints[k])
    THEN PyFalse
    ELSE IF /\ Len(read_pair) = 2
            /\ has_perfect_mapping(read_pair[1])
            /\ has_perfect_mapping(read_pair[2])
            /\ ~read_pair[1].is_reverse
            /\ read_pair[2].is_reverse
    THEN insertion_both_mapped(read_pair, breakpoints, upper_insert_threshold)
    ELSE PyNone

insertion_chain(read_pair, breakpoints, upper_insert_threshold) ==
    IF \E i \in DOMAIN read_pair :
          /\ spans_region(read_pair[i], sv_coordinates(breakpoints))
          /\ has_gaps_in_region(read_pair[i], sv_coordinates(breakpoints))
    THEN PyFalse
    ELSE IF \/ \E k \in DOMAIN breakpoints :
                  soft_clips_at_breakpoint(read_pair[1], breakpoints[k])
            \/ (Len(read_pair) = 2
                /\ \E k \in DOMAIN breakpoints :
                      soft_clips_at_breakpoint(read_pair[2], breakpoints[k]))
    THEN PyFalse
    ELSE IF /\ ~read_pair[1].is_reverse
            /\ has_perfect_mapping(read_pair[1])
            /\ spans_region(read_pair[1], breakpoints[1])
    THEN PyTrue
    ELSE IF /\ Len(read_pair) = 2
            /\ read_pair[2].is_reverse
            /\ has_perfect_mapping(read_pair[2])
            /\ spans_region(read_pair[2], breakpoints[Len(breakpoints)])
    THEN PyTrue
    ELSE IF /\ Len(read_pair) = 2
            /\ has_perfect_mapping(read_pair[1])
            /\ has_perfect_mapping(read_pair[2])
            /\ ~read_pair[1].is_reverse
            /\ read_pair[2].is_reverse
    THEN insertion_both_mapped(read_pair, breakpoints, upper_insert_threshold)
    ELSE PyNone

\* The condition shared by the first two deletion rules: two perfectly mapped
\* reads, first forward, second reverse, spanning the breakpoints.
deletion_spanning_pair(read_pair, breakpoints) ==
    /\ Len(read_pair) = 2
    /\ has_perfect_mapping(read_pair[1])
    /\ has_perfect_mapping(read_pair[2])
    /\ ~read_pair[1].is_reverse
    /\ read_pair[2].is_reverse
    /\ pair_spans_regions(read_pair, breakpoints)

\* "one end anchored to left" (line 209)
anchored_left(read_pair, breakpoints) ==
    /\ has_perfect_mapping(read_pair[1])
    /\ ~read_pair[1].is_reverse
    /\ reference_end(read_pair[1]) < breakpoints[1].start
    /\ \/ Len(read_pair) = 1
       \/ read_pair[2].is_unmapped
       \/ read_pair[2].reference_id # read_pair[1].reference_id

\* "one end anchored to right" (lines 212 and 215)
anchored_right(read_pair, breakpoints) ==
    \/ /\ Len(read_pair) = 1
       /\ has_perfect_mapping(read_pair[1])
       /\ read_pair[1].is_reverse
       /\ reference_start(read_pair[1]) > breakpoints[Len(breakpoints)].end
    \/ /\ Len(read_pair) = 2
       /\ has_perfect_mapping(read_pair[2])
       /\ read_pair[2].is_reverse
       /\ reference_start(read_pair[2]) > breakpoints[Len(breakpoints)].end
       /\ \/ read_pair[1].is_unmapped
          \/ read_pair[1].reference_id # read_pair[2].reference_id

deletion_chain(read_pair, breakpoints, lower_insert_threshold, upper_insert_threshold) ==
    IF /\ deletion_spanning_pair(read_pair, breakpoints)
       /\ is_proper_pair(read_pair[1], lower_insert_threshold, upper_insert_threshold)
    THEN PyTrue
    ELSE IF /\ deletion_spanning_pair(read_pair, breakpoints)
            /\ Abs(read_pair[1].isize) < lower_insert_threshold
    THEN PyFalse
    ELSE IF anchored_left(read_pair, breakpoints)
    THEN PyFalse
    ELSE IF anchored_right(read_pair, breakpoints)
    THEN PyFalse
    ELSE IF \/ soft_clips_at_breakpoint(read_pair[1], breakpoints[1])
            \/ (Len(read_pair) = 2
                /\ soft_clips_at_breakpoint(read_pair[2], breakpoints[1]))
    THEN PyFalse
    ELSE PyNone

control_chain(read_pair, lower_insert_threshold, upper_insert_threshold) ==
    IF /\ Len(read_pair) = 2
       /\ has_perfect_mapping(read_pair[1])
       /\ has_perfect_mapping(read_pair[2])
       /\ ~read_pair[1].is_reverse
       /\ read_pair[2].is_reverse
       /\ is_proper_pair(read_pair[1], lower_insert_threshold, upper_insert_threshold)
    THEN PyTrue
    ELSE PyNone

\* The value of is_concordant after the rule chain of one read pair
\* (the pair already sorted by position).
is_concordant(read_pair, region_type, breakpoints, lower_insert_threshold, upper_insert_threshold) ==
    IF region_type = "insertion"
    THEN insertion_chain(read_pair, breakpoints, upper_insert_threshold)
    ELSE IF region_type = "deletion"
    THEN deletion_chain(read_pair, breakpoints,
                        lower_insert_threshold, upper_insert_threshold)
    ELSE control_chain(read_pair, lower_insert_threshold, upper_insert_threshold)

\* sorted(read_pair, key=pos): the sort is stable, so reads with equal pos keep
\* the order in which the unordered set of reads happened to be iterated.  The
\* possible results are all arrangements of the group in ascending pos.
SortedByPos(group) ==
    {s \in [1..Cardinality(group) -> group] :
        /\ \A i, j \in DOMAIN s : i # j => s[i] # s[j]
        /\ \A i, j \in DOMAIN s : i < j => s[i].pos <= s[j].pos}

\* The set of elements of a sequence.
Range(xs) == {xs[i] : i \in DOMAIN xs}

\* bam.fetch(chrom, start, end): the reads of the file that overlap
\* [start, end), in the order of the file; a placed unmapped read counts as
\* one base at its pos.
fetch(bam, region) ==
    LET overlaps(read) ==
           /\ read.pos < region.end
           /\ (IF read.is_unmapped THEN read.pos + 1 ELSE reference_end(read)) > region.start
    IN SelectSeq(bam, overlaps)

\* Lines 155-160: the set of distinct primary reads overlapping any of the
\* regions.
distinct_reads(bam, regions) ==
    {read \in UNION {Range(fetch(bam, regions[k])) : k \in DOMAIN regions} :
        /\ ~read.is_secondary
        /\ ~read.is_supplementary}

\* Lines 163-165: reads_by_name, as a function from read name to its reads.
reads_by_name(reads) ==
    [name \in {read.qname : read \in reads} |-> {read \in reads : read.qname = name}]

\* Lines 227-230: which list the pair is appended to.
appended_to_concordant(outcome) == outcome = PyTrue

\* "elif is_concordant is False" written as a second "if is_concordant is not None".
appended_to_discordant_not_none(outcome) == outcome # PyNone

appended_to_discordant(outcome) == outcome = PyFalse

\* reads_by_name.iteritems(): the keys of the dictionary in one of the orders
\* its hash table can hold them (the order depends on the string hash).
iteritems(dict) ==
    {names \in [1..Cardinality(DOMAIN dict) -> DOMAIN dict] :
        \A i, j \in DOMAIN names : i # j => names[i] # names[j]}

\* One possible result of get_depth_for_region: the read names are walked in
\* the order "names", every read name is given one of the arrangements the
\* position sort can produce ("order" maps each name to the arrangement
\* chosen), and its pair is appended to the concordant list, the discordant
\* list or neither.
depth_for_order(order, names, region_type, breakpoints, lower_insert_threshold, upper_insert_threshold) ==
    LET outcome(name) == is_concordant(order[name], region_type, breakpoints, lower_insert_threshold, upper_insert_threshold)
        to_concordant(name) == appended_to_concordant(outcome(name))
        to_discordant(name) == appended_to_discordant(outcome(name))
        concordant_names == SelectSeq(names, to_concordant)
        discordant_names == SelectSeq(names, to_discordant)
    IN [concordant_pairs |-> [i \in DOMAIN concordant_names |-> order[concordant_names[i]]],
        discordant_pairs |-> [i \in DOMAIN discordant_names |-> order[discordant_names[i]]]]

\* All results get_depth_for_region can return for the given file, fetch
\* regions and breakpoints: one per iteration order of the read set and of
\* the dictionary of read names.
get_depth_for_region(bam_fields, regions, breakpoints, region_type) ==
    LET by_name == reads_by_name(distinct_reads(bam_fields.file, regions))
        orders == {o \in [DOMAIN by_name -> UNION {SortedByPos(by_name[n]) : n \in DOMAIN by_name}] :
                      \A n \in DOMAIN by_name : o[n] \in SortedByPos(by_name[n])}
    IN {depth_for_order(o, names, region_type, breakpoints, bam_fields.lower_insert_threshold, bam_fields.upper_insert_threshold) :
           o \in orders, names \in iteritems(by_name)}

\* ------------------------------------------------------------ genotyping model

\* Bits of a positive numpy int64: np.power(2, e) on integers is representable
\* for e below this.
Int64Bits == 63

\* floor(-10 * log10(2^-(k/4))) = floor(k * 2.5 * log10(2)) for k >= 0, with
\* 2.5 * log10(2) = 0.7525749 to the precision the bounded counts need.
Phred2(k) == (k * 7525749) \div 10000000

\* np.power(2, a) / np.power(2, b) on integers (Python 2: floor division),
\* compared with 1: TRUE when the quotient is at least 1.
ratio_at_least_one(a, b) == a < Int64Bits /\ b < Int64Bits /\ a >= b

\* The genotype_likelihood of genotype_call_with_read_pair: <<"inf">>,
\* <<"-0.0">> or <<"num", value>>.
genotype_likelihood(concordant, discordant, threshold) ==
    IF concordant < threshold /\ discordant < threshold
    THEN \* 2^d / 2^5 is 0 in integer division for d < 5: log10(0)
         <<"inf">>
    ELSE IF 4 * discordant < concordant
    THEN <<"num", Phred2(concordant - 4 * discordant)>>
    ELSE IF ratio_at_least_one(Abs(discordant - 4 * concordant), 4 * concordant)
    THEN <<"inf">>
    ELSE <<"-0.0">>

\* Line 240, commented out in the script: the threshold taken from the argument.
homozygous_deletion_threshold_from_argument(std_depth) == std_depth

\* The threshold in force: the std_depth argument is not used (line 241).
homozygous_deletion_threshold(std_depth) == 5

\* expected_discordant_lower_bound = concordant * 0.25, compared exactly:
\* discordant < concordant * 0.25 iff 4 * discordant < concordant.
below_lower_bound(concordant, discordant) == 4 * discordant < concordant

\* The upper bound taken as inclusive.
below_upper_bound_inclusive(concordant, discordant) == discordant <= concordant * 4

\* discordant < expected_discordant_upper_bound = concordant * 4
below_upper_bound(concordant, discordant) == discordant < concordant * 4

genotype_call_with_read_pair(concordant, discordant, std_depth) ==
    LET T == homozygous_deletion_threshold(std_depth)
        genotype ==
            IF concordant < T /\ discordant < T
            THEN "./."
            ELSE IF below_lower_bound(concordant, discordant)
            THEN "1/1"
            ELSE IF ~below_lower_bound(concordant, discordant) /\ below_upper_bound(concordant, discordant)
            THEN "1/0"
            ELSE "0/0"
    IN <<genotype, genotype_likelihood(concordant, discordant, T)>>

\* ------------------------------------------------------ insert-size estimator

RECURSIVE SumSeq(_)
SumSeq(xs) == IF xs = <<>> THEN 0 ELSE Head(xs) + SumSeq(Tail(xs))

RECURSIVE SumSquares(_)
SumSquares(xs) == IF xs = <<>> THEN 0 ELSE Head(xs) * Head(xs) + SumSquares(Tail(xs))

RECURSIVE Concat(_)
\* The concatenation of a sequence of sequences (list.extend in a loop).
Concat(xss) == IF xss = <<>> THEN <<>> ELSE Head(xss) \o Concat(Tail(xss))

RECURSIVE ISqrtBetween(_, _, _)
\* The largest k in lo..hi with k * k <= x (lo * lo <= x < (hi + 1) * (hi + 1)).
ISqrtBetween(x, lo, hi) ==
    IF lo = hi THEN lo
    ELSE LET mid == (lo + hi + 1) \div 2
         IN IF mid * mid <= x THEN ISqrtBetween(x, mid, hi) ELSE ISqrtBetween(x, lo, mid - 1)

\* floor(sqrt(x)) for 0 <= x < 2^30.
ISqrt(x) == ISqrtBetween(x, 0, 32767)

\* ceil(sqrt(x))
ISqrtUp(x) == IF ISqrt(x) * ISqrt(x) = x THEN ISqrt(x) ELSE ISqrt(x) + 1

\* The k-th smallest element (k from 1) of a non-empty sequence of numbers.
KthSmallest(xs, k) ==
    CHOOSE v \in {xs[i] : i \in DOMAIN xs} :
        /\ Cardinality({i \in DOMAIN xs : xs[i] < v}) < k
        /\ Cardinality({i \in DOMAIN xs : xs[i] <= v}) >= k

\* get_insert_sizes_for_region: the tlen of every qualifying read of the
\* region, in the order bam.fetch yields the reads.
get_insert_sizes_for_region(bam, region) ==
    LET qualifies(read) ==
           /\ has_perfect_mapping(read)
           /\ ~read.mate_is_unmapped
           /\ read.isize >= 0
           /\ read.isize <= 1000
        reads == SelectSeq(fetch(bam, region), qualifies)
    IN [i \in DOMAIN reads |-> reads[i].isize]

\* Lines 304-307: the insert sizes of all copy-2 regions, one list.
insert_sizes_of(bam, copy_2_regions) ==
    Concat([i \in DOMAIN copy_2_regions |-> get_insert_sizes_for_region(bam, copy_2_regions[i])])

\* np.median of a non-empty list, as the rational <<numerator, 2>>.
median(xs) ==
    LET n == Len(xs)
    IN IF n % 2 = 1
       THEN <<2 * KthSmallest(xs, (n + 1) \div 2), 2>>
       ELSE <<KthSmallest(xs, n \div 2) + KthSmallest(xs, n \div 2 + 1), 2>>

\* np.std of a non-empty list (population standard deviation), as the pair
\* <<q, n>> standing for sqrt(q) / n:  q = n * sum(x^2) - sum(x)^2.
std(xs) == <<Len(xs) * SumSquares(xs) - SumSeq(xs) * SumSeq(xs), Len(xs)>>

\* int(x) of Python for the rational num / den, den > 0: truncation to zero.
TruncDiv(num, den) == IF num >= 0 THEN num \div den ELSE -((-num) \div den)

\* int(mean - 1.5 * std) for mean = m[1] / 2 and std = sqrt(sd[1]) / sd[2]:
\* the value is (n * m[1] - sqrt(9 * q)) / (2 * n).
lower_threshold(m, sd) ==
    LET a == sd[2] * m[1]
        d == 2 * sd[2]
    IN IF a * a >= 9 * sd[1]
       THEN (a - ISqrtUp(9 * sd[1])) \div d
       ELSE -((ISqrt(9 * sd[1]) - a) \div d)

\* int(mean + 1.5 * std): (n * m[1] + sqrt(9 * q)) / (2 * n), never negative.
upper_threshold(m, sd) == (sd[2] * m[1] + ISqrt(9 * sd[1])) \div (2 * sd[2])

\* ------------------------------------------------------------------- inputs

M(n) == <<BAM_CMATCH, n>>
Clip(n) == <<BAM_CSOFT_CLIP, n>>
Del(n) == <<BAM_CDEL, n>>

\* A mapped primary read whose mate is mapped on the same reference.
MappedRead(qname, pos, cigar, is_reverse, mapq, nm, isize) ==
    [qname |-> qname, pos |-> pos, cigar |-> cigar, is_unmapped |-> FALSE,
     is_reverse |-> is_reverse, mapq |-> mapq, NM |-> nm, isize |-> isize,
     reference_id |-> 0, is_secondary |-> FALSE, is_supplementary |-> FALSE,
     mate_is_unmapped |-> FALSE]

\* An unmapped read, stored at position pos (aligners place an unmapped read
\* at its mate's position; -1 when it has no position).
UnmappedRead(qname, pos) ==
    [qname |-> qname, pos |-> pos, cigar |-> <<>>, is_unmapped |-> TRUE,
     is_reverse |-> FALSE, mapq |-> 0, NM |-> 0, isize |-> 0,
     reference_id |-> 0, is_secondary |-> FALSE, is_supplementary |-> FALSE,
     mate_is_unmapped |-> FALSE]

\* The mapped mate of an unmapped read.
MateLost(read) == [read EXCEPT !.mate_is_unmapped = TRUE]

Secondary(read) == [read EXCEPT !.is_secondary = TRUE]

\* Bounds of the runs explored: how many alignment files are named on the
\* command line and how many SV calls the table holds.
MaxBams == 2
MaxSvCalls == 2

\* Reads of the samples' control region (copy number 2, [100, 600)).
ControlPair(qname, isize) ==
    <<MappedRead(qname, 100, <<M(100)>>, FALSE, 60, 0, isize),
      MappedRead(qname, isize, <<M(100)>>, TRUE, 60, 0, -isize)>>

\* Reads near the SV calls: pair "p" brackets [1000, 1200) and its forward
\* read soft-clips at 999; pair "q" is a forward read ending at 980 whose
\* unmapped mate is stored at the same position; "s" is a secondary alignment.
SvReads ==
    <<MateLost(MappedRead("q", 880, <<M(100)>>, FALSE, 60, 0, 0)),
      UnmappedRead("q", 880),
      MappedRead("p", 900, <<M(99), Clip(20)>>, FALSE, 60, 0, 400),
      Secondary(MappedRead("s", 950, <<M(100)>>, FALSE, 0, 3, 0)),
      MappedRead("p", 1201, <<M(99)>>, TRUE, 60, 0, -400)>>

\* The alignment files that can be named on the command line.
BamNames == {"a.bam", "b.bam", "e.bam"}

\* pysam.AlignmentFile(bam, "rb"): the reads of each file, in the order of
\* the file (sorted by position).  e.bam has no qualifying read in the control
\* region (its pair's tlen is above 1000).
AlignmentFile(bam) ==
    IF bam = "a.bam" THEN ControlPair("c1", 400) \o SvReads
    ELSE IF bam = "b.bam"
         THEN <<ControlPair("c2", 402)[1], ControlPair("c1", 398)[1],
                ControlPair("c1", 398)[2], ControlPair("c2", 402)[2]>> \o SvReads
         ELSE <<ControlPair("c1", 1500)[1]>> \o SvReads \o <<ControlPair("c1", 1500)[2]>>

\* bam_file.lengths: the length of the one contig of every file's header.
ContigLength == 5000

\* The control-region tables: name is the copy number of column 4.
ControlTables ==
    {<<[start |-> 100, end |-> 600, name |-> "2"]>>,
     <<[start |-> 100, end |-> 600, name |-> "2"], [start |-> 2000, end |-> 2500, name |-> "3"]>>}

\* The SV calls a table can hold: name is the event type, contig_start and
\* contig_end are columns 7 and 8.
SvCallPool ==
    {[name |-> "deletion", contig_start |-> 1000, contig_end |-> 1200],
     [name |-> "deletion", contig_start |-> 999, contig_end |-> 1300],
     [name |-> "insertion", contig_start |-> 1000, contig_end |-> 1200]}

SeqsUpTo(Pool, n) == UNION {[1..k -> Pool] : k \in 1..n}

\* -------------------------------------------------------------------- state

VARIABLES
    pc,                \* where the script is (run), or which model is explored
    args_bams,         \* args.bams
    control_regions,   \* the control-region table
    sv_calls,          \* the SV-call table
    chromosome_sizes,  \* None, or the contig length of the first file's header
    bams_by_name,      \* bam name -> its fields
    bam_i,             \* index in args.bams of the file whose thresholds are next
    sv_i,              \* index of the SV call being genotyped
    pending,           \* the samples still to genotype for that SV call
    report,            \* rows of concordant_support.tab
    output_fh,         \* rows of the file at args.output
    concordant_reads,  \* records written to concordant_reads.bam
    discordant_reads,  \* records written to discordant_reads.bam
    classifier,        \* one call of get_depth_for_region, step by step
    genotyper          \* one call of genotype_call_with_read_pair

vars == <<pc, args_bams, control_regions, sv_calls, chromosome_sizes, bams_by_name,
          bam_i, sv_i, pending, report, output_fh, concordant_reads, discordant_reads,
          classifier, genotyper>>

run_vars == <<args_bams, control_regions, sv_calls, chromosome_sizes, bams_by_name,
              bam_i, sv_i, pending, report, output_fh, concordant_reads, discordant_reads>>

EmptyDict == [x \in {} |-> x]

\* A dictionary with one key set (d[key] = value).
DictSet(d, key, value) == [k \in DOMAIN d \cup {key} |-> IF k = key THEN value ELSE d[k]]

Idle == <<"idle">>

\* --------------------------------------------------------------- the script

\* Lines 375-383: the breakpoint intervals of an SV call.
breakpoint_intervals(sv_call) ==
    IF sv_call.name = "deletion"
    THEN <<[start |-> sv_call.contig_start, end |-> sv_call.contig_end]>>
    ELSE <<[start |-> sv_call.contig_start, end |-> sv_call.contig_start + 1],
           [start |-> sv_call.contig_end - 1, end |-> sv_call.contig_end]>>

Max(a, b) == IF a >= b THEN a ELSE b
Min(a, b) == IF a <= b THEN a ELSE b

\* set_chromsizes(...).slop(b=b): every interval widened by b on both sides,
\* within the contig.
slop(intervals, b, contig_length) ==
    [i \in DOMAIN intervals |->
        [start |-> Max(0, intervals[i].start - b),
         end |-> Min(contig_length, intervals[i].end + b)]]

\* merge() of one or two intervals in ascending order: overlapping or
\* touching intervals become one.
merge(intervals) ==
    IF Len(intervals) = 2 /\ intervals[2].start <= intervals[1].end
    THEN <<[start |-> intervals[1].start, end |-> Max(intervals[1].end, intervals[2].end)]>>
    ELSE intervals

\* "%.2f" % count for an integer count: its digits, then ".00".
format_2f(count) == <<count, ".00">>

RECURSIVE ReadsOfPairs(_)
\* The reads of a sequence of pairs, pair by pair.
ReadsOfPairs(pairs) == IF pairs = <<>> THEN <<>> ELSE Head(pairs) \o ReadsOfPairs(Tail(pairs))

\* Lines 400-402: the reads written to concordant_reads by one call.
written_to_concordant(breakpoint_concordant, breakpoint_discordant) == ReadsOfPairs(breakpoint_concordant)

\* A copy-and-paste slip in the second write loop: it walks the concordant pairs.
written_to_discordant_slip(breakpoint_concordant, breakpoint_discordant) == ReadsOfPairs(breakpoint_concordant)

\* Lines 404-406: the reads written to discordant_reads by one call.
written_to_discordant(breakpoint_concordant, breakpoint_discordant) == ReadsOfPairs(breakpoint_discordant)

\* The estimation loop left after its first file.
after_estimate_slip(i, n) == "open"

\* Line 296: the loop over args.bams goes on until its last file.
after_estimate(i, n) == IF i = n THEN "open" ELSE "estimate"

\* The fields of a sample once its insert sizes are known (lines 309-321, 346);
\* the open file is named by its path.
sample_fields(bam, insert_sizes) ==
    [file |-> bam,
     mean_insert_size |-> median(insert_sizes),
     std_insert_size |-> std(insert_sizes),
     lower_insert_threshold |-> lower_threshold(median(insert_sizes), std(insert_sizes)),
     upper_insert_threshold |-> upper_threshold(median(insert_sizes), std(insert_sizes)),
     std_depth |-> 5]

\* int(bam["mean_insert_size"])
int_mean(fields) == TruncDiv(fields.mean_insert_size[1], fields.mean_insert_size[2])

Init ==
    /\ pc = "estimate"
    /\ args_bams \in SeqsUpTo(BamNames, MaxBams)
    /\ control_regions \in ControlTables
    /\ sv_calls \in SeqsUpTo(SvCallPool, MaxSvCalls)
    /\ chromosome_sizes = "None"
    /\ bams_by_name = EmptyDict
    /\ bam_i = 1
    /\ sv_i = 1
    /\ pending = {}
    /\ report = <<>>
    /\ output_fh = <<>>
    /\ concordant_reads = <<>>
    /\ discordant_reads = <<>>
    /\ classifier = Idle
    /\ genotyper = Idle

\* Lines 296-346, one iteration: the thresholds of the next file.  With no
\* qualifying insert size the median is NaN and int(NaN) raises ValueError.
EstimateThresholds ==
    /\ pc = "estimate"
    /\ bam_i <= Len(args_bams)
    /\ LET bam == args_bams[bam_i]
           copy_2_regions == SelectSeq(control_regions, LAMBDA region : region.name = "2")
           insert_sizes == insert_sizes_of(AlignmentFile(bam), copy_2_regions)
       IN /\ chromosome_sizes' = IF chromosome_sizes = "None" THEN <<ContigLength>> ELSE chromosome_sizes
          /\ IF insert_sizes = <<>>
             THEN /\ pc' = "raised"
                  /\ UNCHANGED <<bams_by_name, bam_i>>
             ELSE /\ bams_by_name' = DictSet(bams_by_name, bam, sample_fields(bam, insert_sizes))
                  /\ bam_i' = bam_i + 1
                  /\ pc' = after_estimate(bam_i, Len(args_bams))
    /\ UNCHANGED <<args_bams, control_regions, sv_calls, sv_i, pending, report, output_fh,
                   concordant_reads, discordant_reads, classifier, genotyper>>

\* Lines 363-372: the report gets its header, the two read files and the file
\* at args.output are opened.
OpenOutputs ==
    /\ pc = "open"
    /\ report' = <<<<"chr", "start", "end", "sv_call", "concordant", "discordant", "genotype", "genotype_likelihood">>>>
    /\ output_fh' = <<>>
    /\ pending' = DOMAIN bams_by_name
    /\ pc' = "genotype"
    /\ UNCHANGED <<args_bams, control_regions, sv_calls, chromosome_sizes, bams_by_name,
                   bam_i, sv_i, concordant_reads, discordant_reads, classifier, genotyper>>

\* Lines 387-415, one iteration: one sample of bams_by_name for the SV call
\* sv_calls[sv_i] (the dictionary's iteration order is not fixed).
GenotypeSample ==
    /\ pc = "genotype"
    /\ \E bam_name \in pending :
       LET sv_call == sv_calls[sv_i]
           bam == bams_by_name[bam_name]
           breakpoints == breakpoint_intervals(sv_call)
           regions == merge(slop(breakpoints, int_mean(bam), chromosome_sizes[1]))
       IN \E depth \in get_depth_for_region([bam EXCEPT !.file = AlignmentFile(@)], regions, breakpoints, sv_call.name) :
          LET breakpoint_concordant == depth.concordant_pairs
              breakpoint_discordant == depth.discordant_pairs
              call == genotype_call_with_read_pair(Len(breakpoint_concordant), Len(breakpoint_discordant), bam.std_depth)
              to_concordant == written_to_concordant(breakpoint_concordant, breakpoint_discordant)
              to_discordant == written_to_discordant(breakpoint_concordant, breakpoint_discordant)
          IN /\ concordant_reads' = concordant_reads \o [i \in DOMAIN to_concordant |-> <<bam_name, to_concordant[i]>>]
             /\ discordant_reads' = discordant_reads \o [i \in DOMAIN to_discordant |-> <<bam_name, to_discordant[i]>>]
             /\ report' = Append(report, <<"contig", sv_call.contig_start, sv_call.contig_end, sv_call.name,
                                           format_2f(Len(breakpoint_concordant)), format_2f(Len(breakpoint_discordant)),
                                           call[1], call[2]>>)
             /\ IF pending = {bam_name}
                THEN IF sv_i = Len(sv_calls)
                     THEN pc' = "close" /\ UNCHANGED <<sv_i, pending>>
                     ELSE pc' = "genotype" /\ sv_i' = sv_i + 1 /\ pending' = DOMAIN bams_by_name
                ELSE pc' = "genotype" /\ pending' = pending \ {bam_name} /\ UNCHANGED sv_i
    /\ UNCHANGED <<args_bams, control_regions, sv_calls, chromosome_sizes, bams_by_name,
                   bam_i, output_fh, classifier, genotyper>>

\* Lines 440-442: the files are closed.
CloseOutputs ==
    /\ pc = "close"
    /\ pc' = "done"
    /\ UNCHANGED <<run_vars, classifier, genotyper>>

Next == EstimateThresholds \/ OpenOutputs \/ GenotypeSample \/ CloseOutputs

Spec == Init /\ [][Next]_vars

\* ------------------------------------------ one call of get_depth_for_region

\* Bound of the classifier runs: how many further read names, besides the
\* pair under study, the fetched reads hold.
MaxExtraNames == 1

\* Mapping qualities explored: mapq 60 without mismatches, mapq 60 with five
\* mismatches (above 2% of 100 bases).
Qualities == {<<60, 0>>, <<60, 5>>}

\* The reads a product of field values describes; a forward read carries a
\* positive template length, a reverse read a negative one.
ReadsOf(qname, positions, cigars, sizes) ==
    {MappedRead(qname, pos, cigar, rev, q[1], q[2], IF rev THEN -size ELSE size) :
        pos \in positions, cigar \in cigars, rev \in BOOLEAN, q \in Qualities, size \in sizes}

\* Reads around the deletion breakpoint [1000, 2000): left reads end at 980 or
\* 1000 or start at 1000, right reads end at 2000 or start at 2001; trailing
\* and leading soft clips; two reads of mapping quality 0, one a full match.
DeletionPool ==
    ReadsOf("p", {880, 900, 1000}, {<<M(100)>>, <<M(100), Clip(20)>>}, {1200, 1500})
    \cup ReadsOf("p", {1900, 2001}, {<<M(100)>>, <<Clip(20), M(100)>>}, {1200, 1500})
    \cup {MappedRead("p", 900, <<M(100)>>, FALSE, 0, 0, 1200),
          MappedRead("p", 2001, <<M(100)>>, TRUE, 0, 1, -1200)}
    \cup {UnmappedRead("p", pos) : pos \in {-1, 100, 880, 3000}}

\* Reads around the insertion breakpoints (5000, 5001) and (6000, 6001).
InsertionPool ==
    ReadsOf("p", {4900}, {<<M(600), Del(10), M(600)>>, <<M(1200)>>, <<M(100), Clip(20)>>}, {1200, 1500})
    \cup ReadsOf("p", {5000, 5001, 5002, 6002}, {<<Clip(20), M(100)>>}, {1200, 1500})
    \cup ReadsOf("p", {5900}, {<<M(100), Clip(20)>>}, {1200, 1500})
    \cup ReadsOf("p", {4800, 4950, 5400, 5950, 6100}, {<<M(100)>>}, {1200, 1500})
    \cup {UnmappedRead("p", pos) : pos \in {-1, 100, 4800, 7000}}

\* Reads of a control region.
ControlPool ==
    ReadsOf("p", {880, 2001}, {<<M(100)>>}, {1200, 1500})
    \cup {UnmappedRead("p", 880)}

\* The calls explored: region type, breakpoints, the reads the pair under
\* study is drawn from.
ClassifierCases ==
    {[region_type |-> "deletion", sv_call |-> [name |-> "deletion", contig_start |-> 1000, contig_end |-> 2000], pool |-> DeletionPool],
     [region_type |-> "insertion", sv_call |-> [name |-> "insertion", contig_start |-> 5000, contig_end |-> 6001], pool |-> InsertionPool],
     [region_type |-> "control", sv_call |-> [name |-> "inversion", contig_start |-> 1000, contig_end |-> 2000], pool |-> ControlPool]}

\* Sample thresholds explored: template length 1200 is a proper pair under the
\* first and too short under the second; 1500 is too long under both.
ClassifierThresholds ==
    {[mean |-> 1200, lower |-> 1100, upper |-> 1300],
     [mean |-> 1300, lower |-> 1250, upper |-> 1400]}

ExtraName(j) == IF j = 1 THEN "x1" ELSE IF j = 2 THEN "x2" ELSE "x3"

\* A further read name of the file: a pair bracketing [1000, 2000) and a
\* secondary alignment of its forward read.
ExtraReads(j) ==
    <<MappedRead(ExtraName(j), 880, <<M(100)>>, FALSE, 60, 0, 1200),
      MappedRead(ExtraName(j), 2001, <<M(100)>>, TRUE, 60, 0, -1200),
      Secondary(MappedRead(ExtraName(j), 5000, <<M(100)>>, FALSE, 0, 0, 1200))>>

\* The records of one template in the file, r1 before r2 (one record when
\* both are the same): a mapped read whose mate is the unmapped read carries
\* the mate-unmapped flag.
Template(r1, r2) ==
    LET record(r) == IF ~r.is_unmapped /\ (\E u \in {r1, r2} : u.is_unmapped) THEN MateLost(r) ELSE r
    IN IF r1 = r2 THEN <<record(r1)>> ELSE <<record(r1), record(r2)>>

\* bam_file.lengths for the calls explored.
ClassifierContigLength == 10000

ClassifierInit ==
    /\ pc = "classifier"
    /\ args_bams = <<>>
    /\ control_regions = <<>>
    /\ sv_calls = <<>>
    /\ chromosome_sizes = "None"
    /\ bams_by_name = EmptyDict
    /\ bam_i = 1
    /\ sv_i = 1
    /\ pending = {}
    /\ report = <<>>
    /\ output_fh = <<>>
    /\ concordant_reads = <<>>
    /\ discordant_reads = <<>>
    /\ genotyper = Idle
    /\ \E case \in ClassifierCases, thresholds \in ClassifierThresholds, extra \in 0..MaxExtraNames :
       \E r1 \in case.pool, r2 \in case.pool :
          classifier =
             [at |-> "fetch",
              bam_fields |-> [file |-> Template(r1, r2) \o Concat([j \in 1..extra |-> ExtraReads(j)]),
                              lower_insert_threshold |-> thresholds.lower,
                              upper_insert_threshold |-> thresholds.upper],
              regions |-> merge(slop(breakpoint_intervals(case.sv_call), thresholds.mean, ClassifierContigLength)),
              breakpoints |-> breakpoint_intervals(case.sv_call),
              region_type |-> case.region_type,
              reads_by_name |-> EmptyDict,
              todo |-> {},
              read_name |-> "",
              read_pair |-> <<>>,
              is_concordant |-> PyNone,
              concordant_pairs |-> <<>>,
              discordant_pairs |-> <<>>]

\* Lines 144-170: the reads of the regions are fetched and grouped by name.
FetchReads ==
    /\ pc = "classifier"
    /\ classifier.at = "fetch"
    /\ LET by_name == reads_by_name(distinct_reads(classifier.bam_fields.file, classifier.regions))
       IN classifier' = [classifier EXCEPT !.reads_by_name = by_name,
                                           !.todo = DOMAIN by_name,
                                           !.at = IF DOMAIN by_name = {} THEN "returned" ELSE "loop"]
    /\ UNCHANGED <<pc, run_vars, genotyper>>

\* Lines 172-230, one iteration: the reads of one name are sorted by position
\* and the pair is appended to the concordant list, the discordant list or
\* neither.  After the last name the two lists are returned (line 232).
ClassifyPair ==
    /\ pc = "classifier"
    /\ classifier.at = "loop"
    /\ \E read_name \in classifier.todo :
       \E read_pair \in SortedByPos(classifier.reads_by_name[read_name]) :
          LET outcome == is_concordant(read_pair, classifier.region_type, classifier.breakpoints,
                                       classifier.bam_fields.lower_insert_threshold,
                                       classifier.bam_fields.upper_insert_threshold)
          IN classifier' =
                [classifier EXCEPT
                    !.read_name = read_name,
                    !.read_pair = read_pair,
                    !.is_concordant = outcome,
                    !.concordant_pairs = IF appended_to_concordant(outcome) THEN Append(@, read_pair) ELSE @,
                    !.discordant_pairs = IF appended_to_discordant(outcome) THEN Append(@, read_pair) ELSE @,
                    !.todo = @ \ {read_name},
                    !.at = IF classifier.todo = {read_name} THEN "returned" ELSE "loop"]
    /\ UNCHANGED <<pc, run_vars, genotyper>>

ClassifierNext == FetchReads \/ ClassifyPair

SpecClassifier == ClassifierInit /\ [][ClassifierNext]_vars

\* --------------------------------------- one call of genotype_call_with_read_pair

\* Bound of the genotyping runs: the largest pair count explored.
MaxDepth == 20

\* The std_depth arguments explored (the script passes 5).
StdDepths == {0, 5, 10}

GenotyperInit ==
    /\ pc = "genotyper"
    /\ args_bams = <<>>
    /\ control_regions = <<>>
    /\ sv_calls = <<>>
    /\ chromosome_sizes = "None"
    /\ bams_by_name = EmptyDict
    /\ bam_i = 1
    /\ sv_i = 1
    /\ pending = {}
    /\ report = <<>>
    /\ output_fh = <<>>
    /\ concordant_reads = <<>>
    /\ discordant_reads = <<>>
    /\ classifier = Idle
    /\ \E concordant \in 0..MaxDepth, discordant \in 0..MaxDepth, std_depth \in StdDepths :
          genotyper = [at |-> "call", concordant |-> concordant, discordant |-> discordant,
                       std_depth |-> std_depth, genotype |-> "", genotype_likelihood |-> <<>>]

\* Lines 235-276: the call returns the genotype and its likelihood.
GenotypeCall ==
    /\ pc = "genotyper"
    /\ genotyper.at = "call"
    /\ LET call == genotype_call_with_read_pair(genotyper.concordant, genotyper.discordant, genotyper.std_depth)
       IN genotyper' = [genotyper EXCEPT !.at = "returned", !.genotype = call[1], !.genotype_likelihood = call[2]]
    /\ UNCHANGED <<pc, run_vars, classifier>>

GenotyperNext == GenotypeCall

SpecGenotyper == GenotyperInit /\ [][GenotyperNext]_vars

\* ------------------------------------------------------------------- claims

\* C1 as stated: over a whole run no read (of one sample) is written to both
\* the concordant and the discordant output stream.
C1_NoReadInBothStreams == Range(concordant_reads) \cap Range(discordant_reads) = {}

\* C1, amended: the reads one classification call (one SV call against one
\* sample) writes to the concordant stream and those it writes to the
\* discordant stream are disjoint.
C1_StreamsDisjointPerCall ==
    [][LET new_concordant == {concordant_reads'[i] : i \in (Len(concordant_reads) + 1)..Len(concordant_reads')}
           new_discordant == {discordant_reads'[i] : i \in (Len(discordant_reads) + 1)..Len(discordant_reads')}
       IN new_concordant \cap new_discordant = {}]_vars

\* C1's case: two SV calls with overlapping fetch regions have been genotyped
\* against one sample and a read of it was written once per SV call, to the
\* concordant stream for one and to the discordant stream for the other.
C1_Witness ==
    /\ sv_i = 2
    /\ \E i \in DOMAIN concordant_reads, j \in DOMAIN discordant_reads :
          /\ concordant_reads[i] = discordant_reads[j]
          /\ concordant_reads[i][2].qname = "p"

\* The state of a returned classifier call.
ClassifierReturned == pc = "classifier" /\ classifier.at = "returned"

\* C2 as stated: the counts a call returns are those of every iteration order
\* of the read set, so every possible result of get_depth_for_region on the
\* same reads, thresholds and SV call has the same two counts.
C2_CountsIndependentOfOrder ==
    ClassifierReturned =>
        \A depth \in get_depth_for_region(classifier.bam_fields, classifier.regions,
                                          classifier.breakpoints, classifier.region_type) :
            /\ Len(depth.concordant_pairs) = Len(classifier.concordant_pairs)
            /\ Len(depth.discordant_pairs) = Len(classifier.discordant_pairs)

\* The state of a returned genotyping call.
GenotyperReturned == pc = "genotyper" /\ genotyper.at = "returned"

\* C3 as stated: 4 concordant pairs and 1 discordant pair give "1/1".
C3_FourOneIsHomozygousVariant ==
    (GenotyperReturned /\ genotyper.concordant = 4 /\ genotyper.discordant = 1)
        => genotyper.genotype = "1/1"

\* C3, amended: 4 concordant pairs and 1 discordant pair give "./.", both
\* counts being below the threshold 5, whatever std_depth is passed.
C3_FourOneIsNoCall ==
    (GenotyperReturned /\ genotyper.concordant = 4 /\ genotyper.discordant = 1)
        => genotyper.genotype = "./."

\* C3's case: the call with counts 4 and 1 has returned.
C3_Witness ==
    GenotyperReturned /\ genotyper.concordant = 4 /\ genotyper.discordant = 1
    /\ genotyper.std_depth = 0

\* C4: for all counts C and D and every std_depth the genotype is "./." iff
\* C < 5 and D < 5; otherwise "1/1" iff D < 0.25 C, "1/0" iff
\* 0.25 C <= D < 4 C, "0/0" iff D >= 4 C; it is one of these four strings.
C4_GenotypeTable ==
    GenotyperReturned =>
        LET C == genotyper.concordant
            D == genotyper.discordant
            g == genotyper.genotype
            negligible == C < 5 /\ D < 5
        IN /\ g \in {"./.", "1/1", "1/0", "0/0"}
           /\ (g = "./.") <=> negligible
           /\ (g = "1/1") <=> (~negligible /\ 100 * D < 25 * C)
           /\ (g = "1/0") <=> (~negligible /\ 25 * C <= 100 * D /\ D < 4 * C)
           /\ (g = "0/0") <=> (~negligible /\ D >= 4 * C)

\* C4's cases: C = 4, D = 8 has returned "1/0" for a std_depth other than 5.
C4_Witness ==
    /\ GenotyperReturned
    /\ genotyper.concordant = 4 /\ genotyper.discordant = 8
    /\ genotyper.std_depth = 10
    /\ genotyper.genotype = "1/0"

\* The classifier has just classified the pair of the given read name.
PairClassified(name) ==
    pc = "classifier" /\ classifier.at \in {"loop", "returned"} /\ classifier.read_name = name

\* C5 as stated: for a deletion, a template whose mapped read is forward,
\* perfectly mapped and ends before the breakpoint start, and whose other read
\* is unmapped, is classified discordant, whether the unmapped read is fetched
\* or not and wherever its record is stored.
C5_AnchoredLeftIsDiscordant ==
    (/\ PairClassified("p")
     /\ classifier.region_type = "deletion"
     /\ LET template == {r \in Range(classifier.bam_fields.file) : r.qname = "p"}
        IN \E m \in template :
              /\ has_perfect_mapping(m)
              /\ ~m.is_reverse
              /\ reference_end(m) < classifier.breakpoints[1].start
              /\ template # {m}
              /\ \A u \in template \ {m} : u.is_unmapped)
        => classifier.is_concordant = PyFalse

\* C6 as stated: for an insertion, a single perfectly mapped read whose clipped
\* alignment edge coincides with a breakpoint (it ends at the breakpoint start
\* with a trailing soft clip, or begins at the breakpoint start or end with a
\* leading soft clip) is classified discordant.
C6_SoftClipAtBreakpointIsDiscordant ==
    (/\ PairClassified("p")
     /\ classifier.region_type = "insertion"
     /\ Len(classifier.read_pair) = 1
     /\ has_perfect_mapping(classifier.read_pair[1])
     /\ LET read == classifier.read_pair[1]
        IN \E k \in DOMAIN classifier.breakpoints :
              \/ /\ reference_end(read) = classifier.breakpoints[k].start
                 /\ read.cigar[Len(read.cigar)][1] = BAM_CSOFT_CLIP
              \/ /\ reference_start(read) \in {classifier.breakpoints[k].start, classifier.breakpoints[k].end}
                 /\ read.cigar[1][1] = BAM_CSOFT_CLIP)
        => classifier.is_concordant = PyFalse

\* C7: for a deletion a pair is concordant iff it has two reads, both
\* perfectly mapped, the first forward and the second reverse, the first
\* starting strictly before the breakpoint start and the second ending
\* strictly after the breakpoint end, with lower <= |template length of the
\* first| <= upper; the same spanning pair with |template length| < lower is
\* discordant.
C7_DeletionConcordantIff ==
    (/\ pc = "classifier"
     /\ classifier.at \in {"loop", "returned"}
     /\ classifier.read_name # ""
     /\ classifier.region_type = "deletion")
        => LET pair == classifier.read_pair
               lower == classifier.bam_fields.lower_insert_threshold
               upper == classifier.bam_fields.upper_insert_threshold
               spanning ==
                   /\ Len(pair) = 2
                   /\ has_perfect_mapping(pair[1]) /\ has_perfect_mapping(pair[2])
                   /\ ~pair[1].is_reverse /\ pair[2].is_reverse
                   /\ pair[1].pos < classifier.breakpoints[1].start
                   /\ reference_end(pair[2]) > classifier.breakpoints[1].end
           IN /\ (classifier.is_concordant = PyTrue)
                    <=> (spanning /\ lower <= Abs(pair[1].isize) /\ Abs(pair[1].isize) <= upper)
              /\ (spanning /\ Abs(pair[1].isize) < lower) => classifier.is_concordant = PyFalse

\* C7's case: mate 1 at [900, 999] forward and mate 2 at [2001, 2100] reverse
\* around [1000, 2000), template length 1200 within [1100, 1300], concordant.
C7_Witness ==
    /\ PairClassified("p")
    /\ classifier.region_type = "deletion"
    /\ Len(classifier.read_pair) = 2
    /\ classifier.read_pair[1].pos = 900 /\ reference_end(classifier.read_pair[1]) = 1000
    /\ classifier.read_pair[2].pos = 2001 /\ reference_end(classifier.read_pair[2]) = 2101
    /\ Abs(classifier.read_pair[1].isize) = 1200
    /\ classifier.bam_fields.lower_insert_threshold = 1100
    /\ classifier.is_concordant = PyTrue
    /\ classifier.concordant_pairs = <<classifier.read_pair>>

\* C8 as stated: a sample without qualifying insert-size reads in the copy-2
\* control regions does not make the threshold computation raise.
C8_EmptyInsertSizesDoNotRaise == pc # "raised"

\* C9: within one call every pair is appended once to the concordant list,
\* once to the discordant list, or to neither; no pair is in both, and the two
\* counts together never exceed the number of read names handled so far.
C9_OneOutcomePerPair ==
    (pc = "classifier" /\ classifier.at \in {"loop", "returned"}) =>
        LET concordant_pairs == classifier.concordant_pairs
            discordant_pairs == classifier.discordant_pairs
            names(pairs) == {pairs[i][1].qname : i \in DOMAIN pairs}
            handled == DOMAIN classifier.reads_by_name \ classifier.todo
        IN /\ names(concordant_pairs) \cap names(discordant_pairs) = {}
           /\ Cardinality(names(concordant_pairs)) = Len(concordant_pairs)
           /\ Cardinality(names(discordant_pairs)) = Len(discordant_pairs)
           /\ names(concordant_pairs) \cup names(discordant_pairs) \subseteq handled
           /\ Len(concordant_pairs) + Len(discordant_pairs) <= Cardinality(handled)
           /\ Cardinality(handled) <= Cardinality(DOMAIN classifier.reads_by_name)

\* C9's case: a call over two read names has returned with one pair in the
\* concordant list, none in the discordant list and one pair in neither.
C9_Witness ==
    /\ ClassifierReturned
    /\ Cardinality(DOMAIN classifier.reads_by_name) = 2
    /\ Len(classifier.concordant_pairs) = 1
    /\ Len(classifier.discordant_pairs) = 0

\* C10: no SV call is classified against a sample before the thresholds of
\* every sample named on the command line are computed, and once the
\* estimation loop is over no step changes a sample's thresholds.
C10_ThresholdsBeforeClassification ==
    [][/\ pc = "genotype" =>
            /\ \A k \in DOMAIN args_bams : args_bams[k] \in DOMAIN bams_by_name
            /\ pending \subseteq DOMAIN bams_by_name
       /\ pc # "estimate" => bams_by_name' = bams_by_name]_vars

\* C10's case: a run over two samples and two SV calls has finished.
C10_Witness ==
    /\ pc = "done"
    /\ Cardinality(DOMAIN bams_by_name) = 2
    /\ Len(sv_calls) = 2
    /\ Len(report) = 5

\* C11 as stated: when a run over n SV calls and m distinct samples completes,
\* the file at the output path of the command line holds the header row
\* followed by n*m data rows, one per (SV call, sample), each with the pair's
\* concordant count, discordant count, genotype and genotype likelihood.
C11_OutputHoldsReportRows ==
    pc = "done" =>
        /\ Len(output_fh) = 1 + Len(sv_calls) * Cardinality(Range(args_bams))
        /\ output_fh[1] = <<"chr", "start", "end", "sv_call", "concordant", "discordant", "genotype", "genotype_likelihood">>
        /\ \A i \in 2..Len(output_fh) : Len(output_fh[i]) = 8

\* The conditions of the insertion rules as the claims name them, for the
\* pair the classifier has just handled.
SpansSvWithGap(read_pair, breakpoints) ==
    \E i \in DOMAIN read_pair :
       /\ spans_region(read_pair[i], sv_coordinates(breakpoints))
       /\ has_gaps_in_region(read_pair[i], sv_coordinates(breakpoints))

SoftClipsAtEitherBreakpoint(read_pair, breakpoints) ==
    \E i \in DOMAIN read_pair : \E k \in DOMAIN breakpoints :
       soft_clips_at_breakpoint(read_pair[i], breakpoints[k])

FirstReadSpansFirstBreakpoint(read_pair, breakpoints) ==
    /\ ~read_pair[1].is_reverse
    /\ has_perfect_mapping(read_pair[1])
    /\ spans_region(read_pair[1], breakpoints[1])

SecondReadSpansLastBreakpoint(read_pair, breakpoints) ==
    /\ Len(read_pair) = 2
    /\ read_pair[2].is_reverse
    /\ has_perfect_mapping(read_pair[2])
    /\ spans_region(read_pair[2], breakpoints[Len(breakpoints)])

BothMappedForwardReverse(read_pair) ==
    /\ Len(read_pair) = 2
    /\ has_perfect_mapping(read_pair[1])
    /\ has_perfect_mapping(read_pair[2])
    /\ ~read_pair[1].is_reverse
    /\ read_pair[2].is_reverse

ExactlyOneMapsOutside(read_pair, breakpoints) ==
    maps_outside_regions(read_pair[1], breakpoints) # maps_outside_regions(read_pair[2], breakpoints)

OutsideWithSpanningMate(read_pair, breakpoints) ==
    \/ (maps_outside_regions(read_pair[1], breakpoints) /\ spans_region(read_pair[2], breakpoints[1]))
    \/ (spans_region(read_pair[1], breakpoints[Len(breakpoints)]) /\ maps_outside_regions(read_pair[2], breakpoints))

InsertionPairClassified == PairClassified("p") /\ classifier.region_type = "insertion"

\* C12: the insertion chain is first-match-wins in the order a, b, c, d, e.  A
\* pair with a read spanning the SV with an alignment gap (a) or with a read
\* soft-clipping at a breakpoint (b) is discordant even when a concordant
\* condition of c, d or e holds; a pair matching c or d and neither a nor b is
\* concordant even when the first read's |template length| exceeds the upper
\* threshold; and a discordant outcome other than a and b (too far apart) occurs
\* only when both reads are perfectly mapped, first forward and second
\* reverse, and no concordant condition of c, d, e holds.
C12_InsertionFirstMatchWins ==
    InsertionPairClassified =>
        LET read_pair == classifier.read_pair
            breakpoints == classifier.breakpoints
            a_or_b == SpansSvWithGap(read_pair, breakpoints) \/ SoftClipsAtEitherBreakpoint(read_pair, breakpoints)
            c_or_d == \/ FirstReadSpansFirstBreakpoint(read_pair, breakpoints)
                      \/ SecondReadSpansLastBreakpoint(read_pair, breakpoints)
        IN /\ a_or_b => classifier.is_concordant = PyFalse
           /\ (~a_or_b /\ c_or_d) => classifier.is_concordant = PyTrue
           /\ (~a_or_b /\ classifier.is_concordant = PyFalse) =>
                 /\ BothMappedForwardReverse(read_pair)
                 /\ ~c_or_d
                 /\ ~ExactlyOneMapsOutside(read_pair, breakpoints)
                 /\ ~OutsideWithSpanningMate(read_pair, breakpoints)
                 /\ Abs(read_pair[1].isize) > classifier.bam_fields.upper_insert_threshold

\* C12's case: the forward read at 4950 spans the first breakpoint (rule c)
\* while its mate soft-clips at 5002 (rule b), template length 1500 above the
\* upper threshold: the pair is discordant.
C12_Witness ==
    /\ InsertionPairClassified
    /\ Len(classifier.read_pair) = 2
    /\ FirstReadSpansFirstBreakpoint(classifier.read_pair, classifier.breakpoints)
    /\ ~SpansSvWithGap(classifier.read_pair, classifier.breakpoints)
    /\ soft_clips_at_breakpoint(classifier.read_pair[2], classifier.breakpoints[1])
    /\ Abs(classifier.read_pair[1].isize) > classifier.bam_fields.upper_insert_threshold
    /\ classifier.is_concordant = PyFalse
    /\ classifier.discordant_pairs = <<classifier.read_pair>>

\* Rule e decides the pair: both reads perfectly mapped, first forward, second
\* reverse, and none of the rules a to d matched.
RuleEDecides ==
    /\ InsertionPairClassified
    /\ BothMappedForwardReverse(classifier.read_pair)
    /\ ~SpansSvWithGap(classifier.read_pair, classifier.breakpoints)
    /\ ~SoftClipsAtEitherBreakpoint(classifier.read_pair, classifier.breakpoints)
    /\ ~FirstReadSpansFirstBreakpoint(classifier.read_pair, classifier.breakpoints)
    /\ ~SecondReadSpansLastBreakpoint(classifier.read_pair, classifier.breakpoints)

\* C13: in insertion rule e the pair is concordant iff exactly one of the two
\* reads maps outside the breakpoints; the two disjuncts that pair
\* maps_outside_regions of one read with spans_region of the other add nothing,
\* since a read that spans a breakpoint never maps outside; a pair with both
\* reads outside or both not outside is discordant when the first read's
\* |template length| exceeds the upper threshold and unclassified otherwise.
C13_RuleEExactlyOneOutside ==
    /\ InsertionPairClassified =>
          \A i \in DOMAIN classifier.read_pair : \A k \in DOMAIN classifier.breakpoints :
             spans_region(classifier.read_pair[i], classifier.breakpoints[k])
                => ~maps_outside_regions(classifier.read_pair[i], classifier.breakpoints)
    /\ RuleEDecides =>
          LET read_pair == classifier.read_pair
              breakpoints == classifier.breakpoints
          IN /\ OutsideWithSpanningMate(read_pair, breakpoints) => ExactlyOneMapsOutside(read_pair, breakpoints)
             /\ classifier.is_concordant = PyTrue <=> ExactlyOneMapsOutside(read_pair, breakpoints)
             /\ ~ExactlyOneMapsOutside(read_pair, breakpoints) =>
                   classifier.is_concordant =
                      IF Abs(read_pair[1].isize) > classifier.bam_fields.upper_insert_threshold
                      THEN PyFalse ELSE PyNone

\* C13's case: the forward read at 4800 lies left of the first breakpoint and
\* the reverse read at 6100 right of the last one, template length 1200 within
\* the upper threshold: rule e leaves the pair unclassified.
C13_Witness ==
    /\ RuleEDecides
    /\ maps_outside_regions(classifier.read_pair[1], classifier.breakpoints)
    /\ maps_outside_regions(classifier.read_pair[2], classifier.breakpoints)
    /\ classifier.read_pair[1].pos = 4800 /\ classifier.read_pair[2].pos = 6100
    /\ Abs(classifier.read_pair[1].isize) <= classifier.bam_fields.upper_insert_threshold
    /\ classifier.is_concordant = PyNone
    /\ classifier.concordant_pairs = <<>> /\ classifier.discordant_pairs = <<>>


====
